---- MODULE Spec2Model ----
(***************************************************************************)
(* iframe-traffic-counter (src/main.rs): a table of visit counts keyed by  *)
(* the HTTP referer, incremented by request tasks under one mutex, loaded  *)
(* from a snapshot file at startup and written back on a timer tick and at *)
(* shutdown.                                                               *)
(*                                                                         *)
(* Strings and file contents are sequences of one-character strings.       *)
(* Counts are naturals; every count the model reaches is far below         *)
(* usize::MAX, so parse overflow and `+= 1` overflow are outside the       *)
(* bounds of this model.                                                   *)
(***************************************************************************)
EXTENDS Integers, Sequences, FiniteSets, TLC

VARIABLES
    visits,        \* the HashMap<String, usize> behind the Mutex
    lock,          \* holder of the Mutex: Free, Main or Task(c)
    exists,        \* the snapshot file exists on disk
    file,          \* the bytes of the snapshot file
    pos,           \* the position of the `storage` handle
    read_visits,   \* main's local `read_visits` (line 119)
    loaded,        \* the table as startup loading left it (history)
    mainPc,        \* where main() is
    result,        \* main's return: "none", "ok" or "err"
    failed,        \* where an I/O operation of main returned Err, or "none"
    cancel,        \* the cancel channel: "empty", "msg" or "closed"
    interrupted,   \* ctrl_c() has completed with Ok
    conn,          \* per connection task: its position and its referer
    responses,     \* the responses sent so far, in order
    buf,           \* the text of the latest write_visits(&visits)
    startFile,     \* the bytes of the snapshot file at startup (history)
    flushed,       \* the table the latest write_visits read (history)
    flushing,      \* the flushes begun and not ended (history)
    finalFlushes   \* the shutdown flushes completed (history)

vars == <<visits, lock, exists, file, pos, read_visits, loaded, mainPc, result,
          failed, cancel, interrupted, conn, responses, buf, startFile,
          flushed, flushing, finalFlushes>>

----------------------------------------------------------------------------
(* Bounds *)

MaxConns == 2      \* connections accepted in one run
MaxReqs == 2       \* requests received in one run

----------------------------------------------------------------------------
(* Characters and strings *)

NL == "\n"
CR == "\r"
SP == " "
BAD == "#"         \* stands for a byte that is not visible ASCII / not UTF-8

Digits == <<"0", "1", "2", "3", "4", "5", "6", "7", "8", "9">>

IsDigit(c) == \E i \in 1..10 : Digits[i] = c

DigitVal(c) == (CHOOSE i \in 1..10 : Digits[i] = c) - 1

\* usize's Display: the decimal digits, no sign, no leading zero
RECURSIVE to_string(_)
to_string(n) ==
    IF n < 10 THEN <<Digits[n + 1]>>
    ELSE Append(to_string(n \div 10), Digits[(n % 10) + 1])

RECURSIVE DigitsValue(_, _)
DigitsValue(s, acc) ==
    IF s = <<>> THEN acc
    ELSE DigitsValue(Tail(s), acc * 10 + DigitVal(Head(s)))

Err == [ok |-> FALSE]
Ok(v) == [ok |-> TRUE, val |-> v]

\* str::parse::<usize>: an optional leading "+", then one or more decimal
\* digits and nothing else
ParseUsize(s) ==
    LET digits == IF s # <<>> /\ Head(s) = "+" THEN Tail(s) ELSE s
    IN IF digits = <<>> \/ \E i \in 1..Len(digits) : ~IsDigit(digits[i])
       THEN Err
       ELSE Ok(DigitsValue(digits, 0))

\* str::lines: the pieces between "\n", a final piece without "\n" only if
\* it is not empty, and a "\r" before the "\n" removed
StripCR(l) ==
    IF l # <<>> /\ l[Len(l)] = CR THEN SubSeq(l, 1, Len(l) - 1) ELSE l

RECURSIVE LinesFrom(_, _, _)
LinesFrom(s, cur, acc) ==
    IF s = <<>> THEN (IF cur = <<>> THEN acc ELSE Append(acc, cur))
    ELSE IF Head(s) = NL THEN LinesFrom(Tail(s), <<>>, Append(acc, StripCR(cur)))
    ELSE LinesFrom(Tail(s), Append(cur, Head(s)), acc)

Lines(s) == LinesFrom(s, <<>>, <<>>)

\* str::split(' '): every piece between single spaces, empty pieces included
RECURSIVE SplitFrom(_, _, _)
SplitFrom(s, cur, acc) ==
    IF s = <<>> THEN Append(acc, cur)
    ELSE IF Head(s) = SP THEN SplitFrom(Tail(s), <<>>, Append(acc, cur))
    ELSE SplitFrom(Tail(s), Append(cur, Head(s)), acc)

Split(s) == SplitFrom(s, <<>>, <<>>)

----------------------------------------------------------------------------
(* The table and the snapshot codec *)

EmptyTable == [k \in {} |-> 0]

Insert(t, k, v) == [x \in DOMAIN t \cup {k} |-> IF x = k THEN v ELSE t[x]]

\* split_once(' '): the key and the whole rest of the line
LoadLineWholeRest(t, visit) ==
    LET split == Split(visit)
    IN IF Len(split) < 2 THEN t
       ELSE LET server == split[1]
                v == ParseUsize(SubSeq(visit, Len(server) + 2, Len(visit)))
            IN IF v.ok THEN Insert(t, server, v.val) ELSE t

\* lines 124-129: split.next().zip(split.next()) are the first two pieces;
\* the entry is inserted if the second parses
LoadLine(t, visit) ==
    LET split == Split(visit)
    IN IF Len(split) < 2 THEN t
       ELSE LET server == split[1]
                v == ParseUsize(split[2])
            IN IF v.ok THEN Insert(t, server, v.val) ELSE t

\* the loop left at the first line that is not inserted
RECURSIVE LoadLinesUntilBad(_, _)
LoadLinesUntilBad(t, ls) ==
    IF ls = <<>> \/ LoadLine(t, Head(ls)) = t THEN t
    ELSE LoadLinesUntilBad(LoadLine(t, Head(ls)), Tail(ls))

RECURSIVE LoadLines(_, _)
LoadLines(t, ls) ==
    IF ls = <<>> THEN t ELSE LoadLines(LoadLine(t, Head(ls)), Tail(ls))

\* lines 121-130
Decode(text) == LoadLines(EmptyTable, Lines(text))

\* the orders in which HashMap::iter may yield the entries
Orders(t) ==
    {o \in [1..Cardinality(DOMAIN t) -> DOMAIN t] :
        \A i, j \in DOMAIN o : i # j => o[i] # o[j]}

FormatEntry(server, v) == server \o <<SP>> \o to_string(v) \o <<NL>>

\* write_visits: fold(String::new(), |s, (server, v)| "{server} {v}\n{s}")
RECURSIVE FoldEntries(_, _, _)
FoldEntries(t, order, s) ==
    IF order = <<>> THEN s
    ELSE FoldEntries(t, Tail(order),
                     FormatEntry(Head(order), t[Head(order)]) \o s)

write_visits(t, order) == FoldEntries(t, order, <<>>)

----------------------------------------------------------------------------
(* The file *)

IsUtf8(s) == \A i \in 1..Len(s) : s[i] # BAD

\* std::fs::read_to_string
ReadToString(e, f) == IF e /\ IsUtf8(f) THEN Ok(f) ELSE Err

\* line 119: read_to_string(&storage_path).unwrap_or(String::new())
ReadVisits(e, f) ==
    LET r == ReadToString(e, f) IN IF r.ok THEN r.val ELSE <<>>

\* a write of `data` at position p: bytes after p + Len(data) stay
WriteAt(f, p, data) ==
    SubSeq(f, 1, p) \o data \o SubSeq(f, p + Len(data) + 1, Len(f))

----------------------------------------------------------------------------
(* Inputs *)

\* referer header values a client may send
Referers == { <<"a">>, <<"a", SP, "b">> }

NoHeader == [present |-> FALSE]
Header(v) == [present |-> TRUE, value |-> v]

Headers == {NoHeader} \cup {Header(v) : v \in Referers \cup {<<BAD>>}}

IsVisibleAscii(v) == \A i \in 1..Len(v) : v[i] # BAD

\* HeaderValue::to_str: fails on a byte that is not visible ASCII
ToStr(v) == IF IsVisibleAscii(v) THEN Ok(v) ELSE Err

\* a missing header taken as an empty referer
GetRefererOrEmpty(h) == IF h.present THEN ToStr(h.value) ELSE Ok(<<>>)

\* the referer cut at its first space before it is used as the key
GetRefererFirstWord(h) ==
    IF h.present /\ IsVisibleAscii(h.value) THEN Ok(Split(h.value)[1]) ELSE Err

\* lines 56-59: headers().get(REFERER).and_then(|v| v.to_str().ok())
GetReferer(h) == IF h.present THEN ToStr(h.value) ELSE Err

\* snapshot files found at startup
SnapshotFiles == {
    <<>>,
    <<"a", SP, "3", NL, "n", "o", "t", SP, "a", SP, "r", "e", "c", "o", "r", "d", NL>>,
    <<"a", SP, "3", SP, "e", "x", "t", "r", "a", NL>>,
    <<"z", "z", NL, "a", SP, "5", NL>>,
    <<"a", SP, "+", "1", "2", CR, NL>>,
    <<BAD, NL, "a", SP, "3", NL>>,
    <<"a", SP, "1", NL, "a", SP, "3", NL>>,
    <<"a", SP, "b", SP, "2", NL>>,
    <<"b", SP, "-", "1", NL, "b", NL, NL, SP, "4">> }

----------------------------------------------------------------------------
(* State *)

Conns == 1..MaxConns

Free == <<"free">>
Main == <<"main">>
Task(c) == <<"task", c>>

NoConn == [pc |-> "none", referer |-> <<>>]

Init ==
    /\ visits = EmptyTable
    /\ lock = Free
    /\ \/ exists = FALSE /\ file = <<>>
       \/ exists = TRUE /\ file \in SnapshotFiles
    /\ pos = 0
    /\ read_visits = <<>>
    /\ loaded = EmptyTable
    /\ mainPc = "load"
    /\ result = "none"
    /\ failed = "none"
    /\ cancel = "empty"
    /\ interrupted = FALSE
    /\ conn = [c \in Conns |-> NoConn]
    /\ responses = <<>>
    /\ buf = <<>>
    /\ startFile = file
    /\ flushed = EmptyTable
    /\ flushing = {}
    /\ finalFlushes = 0

Running == mainPc # "exited"

\* the result of the I/O operation dropped: main goes on either way
TryIgnored(ok, at, next) ==
    /\ mainPc' = next
    /\ UNCHANGED <<lock, result, flushing>>

\* the `?` after an I/O operation of main at `at`: on Ok main goes on to
\* `next`; on Err main returns the error, dropping its lock guard, and the
\* flush in progress is over
Try(ok, at, next) ==
    IF ok
    THEN /\ mainPc' = next
         /\ UNCHANGED <<lock, result, flushing>>
    ELSE /\ mainPc' = "returned"
         /\ result' = "err"
         /\ lock' = Free
         /\ flushing' = {}

----------------------------------------------------------------------------
(* The signal task, lines 111-115 *)

\* ctrl_c() completes with Ok: the notification is sent and the task ends
CtrlC ==
    /\ Running
    /\ cancel = "empty"
    /\ cancel' = "msg"
    /\ interrupted' = TRUE
    /\ UNCHANGED <<visits, lock, exists, file, pos, read_visits, loaded,
                   mainPc, result, failed, conn, responses, buf, startFile,
                   flushed, flushing, finalFlushes>>

\* ctrl_c() completes with Err: the task ends and drops the sender
CtrlCError ==
    /\ Running
    /\ cancel = "empty"
    /\ cancel' = "closed"
    /\ UNCHANGED <<visits, lock, exists, file, pos, read_visits, loaded,
                   mainPc, result, failed, interrupted, conn, responses, buf,
                   startFile, flushed, flushing, finalFlushes>>

----------------------------------------------------------------------------
(* main: startup, lines 117-140 *)

\* lines 118-133
Load ==
    /\ mainPc = "load"
    /\ read_visits' = ReadVisits(exists, file)
    /\ visits' = Decode(read_visits')
    /\ loaded' = visits'
    /\ mainPc' = "open"
    /\ UNCHANGED <<lock, exists, file, pos, result, failed, cancel,
                   interrupted, conn, responses, buf, startFile, flushed,
                   flushing, finalFlushes>>

\* lines 135-140: write, no append, create, no truncate
Open ==
    /\ mainPc = "open"
    /\ \E ok \in BOOLEAN :
        /\ exists' = (exists \/ ok)
        /\ failed' = IF ok THEN failed ELSE "open"
        /\ Try(ok, "open", "select")
    /\ UNCHANGED pos
    /\ UNCHANGED <<visits, file, read_visits, loaded, cancel, interrupted,
                   conn, responses, buf, startFile, flushed, finalFlushes>>

----------------------------------------------------------------------------
(* main: the select! loop, lines 144-178 *)

\* Some(_) = cancel_rx.recv(): the branch is not taken on a closed channel
SelectCancelOnSome ==
    /\ mainPc = "select"
    /\ cancel = "msg"
    /\ cancel' = "closed"
    /\ mainPc' = "sd_lock"
    /\ flushing' = flushing \cup {"shutdown"}
    /\ UNCHANGED <<visits, lock, exists, file, pos, read_visits, loaded,
                   result, failed, interrupted, conn, responses, buf,
                   startFile, flushed, finalFlushes>>

\* the shutdown begun from outside the loop, whatever main is doing
SelectCancelAnytime ==
    /\ mainPc \in {"select", "tk_lock", "tk_seek", "tk_write", "tk_flush"}
    /\ cancel \in {"msg", "closed"}
    /\ cancel' = "closed"
    /\ mainPc' = "sd_lock"
    /\ flushing' = flushing \cup {"shutdown"}
    /\ UNCHANGED <<visits, lock, exists, file, pos, read_visits, loaded,
                   result, failed, interrupted, conn, responses, buf,
                   startFile, flushed, finalFlushes>>

\* line 150: recv() completes with the notification or with a closed channel
SelectCancel ==
    /\ mainPc = "select"
    /\ cancel \in {"msg", "closed"}
    /\ cancel' = "closed"
    /\ mainPc' = "sd_lock"
    /\ flushing' = flushing \cup {"shutdown"}
    /\ UNCHANGED <<visits, lock, exists, file, pos, read_visits, loaded,
                   result, failed, interrupted, conn, responses, buf,
                   startFile, flushed, finalFlushes>>

\* line 158
SelectTick ==
    /\ mainPc = "select"
    /\ mainPc' = "tk_lock"
    /\ flushing' = flushing \cup {"tick"}
    /\ UNCHANGED <<visits, lock, exists, file, pos, read_visits, loaded,
                   result, failed, cancel, interrupted, conn, responses, buf,
                   startFile, flushed, finalFlushes>>

\* connections accepted by a task of their own, whatever main is doing
AcceptAnytime ==
    /\ Running
    /\ \E c \in Conns :
        /\ conn[c].pc = "none"
        /\ \A d \in Conns : d < c => conn[d].pc # "none"
        /\ conn' = [conn EXCEPT ![c].pc = "idle"]
    /\ UNCHANGED <<visits, lock, exists, file, pos, read_visits, loaded,
                   mainPc, result, failed, cancel, interrupted, responses,
                   buf, startFile, flushed, flushing, finalFlushes>>

\* lines 165-176: a connection is accepted and its task spawned
Accept ==
    /\ mainPc = "select"
    /\ \E c \in Conns :
        /\ conn[c].pc = "none"
        /\ \A d \in Conns : d < c => conn[d].pc # "none"
        /\ conn' = [conn EXCEPT ![c].pc = "idle"]
    /\ UNCHANGED <<visits, lock, exists, file, pos, read_visits, loaded,
                   mainPc, result, failed, cancel, interrupted, responses,
                   buf, startFile, flushed, flushing, finalFlushes>>

\* lines 152 and 160: visits.lock().await
MainLock(at, next) ==
    /\ mainPc = at
    /\ lock = Free
    /\ lock' = Main
    /\ mainPc' = next
    /\ UNCHANGED <<visits, exists, file, pos, read_visits, loaded, result,
                   failed, cancel, interrupted, conn, responses, buf,
                   startFile, flushed, flushing, finalFlushes>>

\* the file written at its end: SeekFrom::End(0)
SeekEnd(at, next) ==
    /\ mainPc = at
    /\ \E ok \in BOOLEAN :
        /\ pos' = IF ok THEN Len(file) ELSE pos
        /\ failed' = IF ok THEN failed ELSE at
        /\ Try(ok, at, next)
    /\ UNCHANGED <<visits, exists, file, read_visits, loaded, cancel,
                   interrupted, conn, responses, buf, startFile, flushed,
                   finalFlushes>>

\* lines 153 and 161: storage.seek(SeekFrom::Start(0)).await?
Seek(at, next) ==
    /\ mainPc = at
    /\ \E ok \in BOOLEAN :
        /\ pos' = IF ok THEN 0 ELSE pos
        /\ failed' = IF ok THEN failed ELSE at
        /\ Try(ok, at, next)
    /\ UNCHANGED <<visits, exists, file, read_visits, loaded, cancel,
                   interrupted, conn, responses, buf, startFile, flushed,
                   finalFlushes>>

\* the table emptied when it has been written
WriteAndClear(at, next) ==
    /\ mainPc = at
    /\ \E order \in Orders(visits) :
        LET data == write_visits(visits, order)
        IN /\ buf' = data
           /\ \E ok \in BOOLEAN :
               \E n \in IF ok THEN {Len(data)}
                         ELSE {0, Len(data) \div 2, Len(data)} :
                 /\ file' = WriteAt(file, pos, SubSeq(data, 1, n))
                 /\ pos' = pos + n
                 /\ failed' = IF ok THEN failed ELSE at
                 /\ Try(ok, at, next)
    /\ flushed' = visits
    /\ visits' = EmptyTable
    /\ UNCHANGED <<exists, read_visits, loaded, cancel, interrupted,
                   conn, responses, startFile, finalFlushes>>

\* lines 154 and 162: storage.write_all(write_visits(&visits).as_bytes()).await?
\* a failing write has written nothing, half or all of the text
Write(at, next) ==
    /\ mainPc = at
    /\ \E order \in Orders(visits) :
        LET data == write_visits(visits, order)
        IN /\ buf' = data
           /\ \E ok \in BOOLEAN :
               \E n \in IF ok THEN {Len(data)}
                         ELSE {0, Len(data) \div 2, Len(data)} :
                 /\ file' = WriteAt(file, pos, SubSeq(data, 1, n))
                 /\ pos' = pos + n
                 /\ failed' = IF ok THEN failed ELSE at
                 /\ Try(ok, at, next)
    /\ flushed' = visits
    /\ UNCHANGED <<visits, exists, read_visits, loaded, cancel, interrupted,
                   conn, responses, startFile, finalFlushes>>

\* lines 155 and 163: storage.flush().await?; with it the flush is complete
Flush(at, next) ==
    /\ mainPc = at
    /\ \E ok \in BOOLEAN :
        /\ failed' = IF ok THEN failed ELSE at
        /\ finalFlushes' = IF ok /\ at = "sd_flush" THEN finalFlushes + 1
                                                    ELSE finalFlushes
        /\ Try(ok, at, next)
    /\ UNCHANGED <<visits, exists, file, pos, read_visits, loaded, cancel,
                   interrupted, conn, responses, buf, startFile, flushed>>

ShutdownLock == MainLock("sd_lock", "sd_seek")
ShutdownSeek == Seek("sd_seek", "sd_write")
ShutdownWrite == Write("sd_write", "sd_flush")
ShutdownFlush == Flush("sd_flush", "sd_end")

\* line 156: return Ok(()), dropping the lock guard
ShutdownReturn ==
    /\ mainPc = "sd_end"
    /\ mainPc' = "returned"
    /\ result' = "ok"
    /\ lock' = Free
    /\ flushing' = flushing \ {"shutdown"}
    /\ UNCHANGED <<visits, exists, file, pos, read_visits, loaded, failed,
                   cancel, interrupted, conn, responses, buf, startFile,
                   flushed, finalFlushes>>

TickLock == MainLock("tk_lock", "tk_seek")
TickSeek == Seek("tk_seek", "tk_write")
TickWrite == Write("tk_write", "tk_flush")
TickFlush == Flush("tk_flush", "tk_end")

\* line 164: the end of the branch drops the lock guard; the loop goes on
TickEnd ==
    /\ mainPc = "tk_end"
    /\ mainPc' = "select"
    /\ lock' = Free
    /\ flushing' = flushing \ {"tick"}
    /\ UNCHANGED <<visits, exists, file, pos, read_visits, loaded, result,
                   failed, cancel, interrupted, conn, responses, buf,
                   startFile, flushed, finalFlushes>>

\* main has returned: the runtime is dropped and the process ends
Exit ==
    /\ mainPc = "returned"
    /\ mainPc' = "exited"
    /\ UNCHANGED <<visits, lock, exists, file, pos, read_visits, loaded,
                   result, failed, cancel, interrupted, conn, responses, buf,
                   startFile, flushed, flushing, finalFlushes>>

----------------------------------------------------------------------------
(* handle, lines 51-76, run by the task of a connection *)

Pending == {c \in Conns : conn[c].pc \in {"lock", "locked"}}

BadRequest == [status |-> 400, referer |-> <<>>, count |-> 0]
Success(referer, count) == [status |-> 200, referer |-> referer, count |-> count]

\* or_insert(1) in place of or_insert(0)
OrInsertOne(t, k) == IF k \in DOMAIN t THEN t ELSE Insert(t, k, 1)

\* line 70: lock.entry(key).or_insert(0)
OrInsert(t, k) == IF k \in DOMAIN t THEN t ELSE Insert(t, k, 0)

\* insert(key, 1) in place of the entry's increment
IncrementReset(t, k) == Insert(t, k, 1)

\* lines 70-71: let visit = ...or_insert(0); *visit += 1
Increment(t, k) == [OrInsert(t, k) EXCEPT ![k] = @ + 1]

\* lines 56-64: a request arrives; without a referer it is answered 400
Request(c, h) ==
    /\ Running
    /\ conn[c].pc = "idle"
    /\ Len(responses) + Cardinality(Pending) < MaxReqs
    /\ LET referer == GetReferer(h)
       IN IF referer.ok
          THEN /\ conn' = [conn EXCEPT ![c] = [pc |-> "lock", referer |-> referer.val]]
               /\ UNCHANGED responses
          ELSE /\ responses' = Append(responses, BadRequest)
               /\ UNCHANGED conn
    /\ UNCHANGED <<visits, lock, exists, file, pos, read_visits, loaded,
                   mainPc, result, failed, cancel, interrupted, buf,
                   startFile, flushed, flushing, finalFlushes>>

\* the table taken without waiting for the lock
HandleLockNoWait(c) ==
    /\ Running
    /\ conn[c].pc = "lock"
    /\ lock' = Task(c)
    /\ conn' = [conn EXCEPT ![c].pc = "locked"]
    /\ UNCHANGED <<visits, exists, file, pos, read_visits, loaded, mainPc,
                   result, failed, cancel, interrupted, responses, buf,
                   startFile, flushed, flushing, finalFlushes>>

\* line 69: visits.lock().await
HandleLock(c) ==
    /\ Running
    /\ conn[c].pc = "lock"
    /\ lock = Free
    /\ lock' = Task(c)
    /\ conn' = [conn EXCEPT ![c].pc = "locked"]
    /\ UNCHANGED <<visits, exists, file, pos, read_visits, loaded, mainPc,
                   result, failed, cancel, interrupted, responses, buf,
                   startFile, flushed, flushing, finalFlushes>>

\* the guard kept after the response has been sent
HandleIncrementKeepsLock(c) ==
    /\ Running
    /\ conn[c].pc = "locked"
    /\ LET referer == conn[c].referer
       IN /\ visits' = Increment(visits, referer)
          /\ responses' = Append(responses, Success(referer, visits'[referer]))
    /\ conn' = [conn EXCEPT ![c] = [pc |-> "idle", referer |-> <<>>]]
    /\ UNCHANGED <<lock, exists, file, pos, read_visits, loaded, mainPc,
                   result, failed, cancel, interrupted, buf, startFile,
                   flushed, flushing, finalFlushes>>

\* lines 70-75: the entry is incremented, the count rendered, the guard
\* dropped and the response sent
HandleIncrement(c) ==
    /\ Running
    /\ conn[c].pc = "locked"
    /\ LET referer == conn[c].referer
       IN /\ visits' = Increment(visits, referer)
          /\ responses' = Append(responses, Success(referer, visits'[referer]))
    /\ lock' = Free
    /\ conn' = [conn EXCEPT ![c] = [pc |-> "idle", referer |-> <<>>]]
    /\ UNCHANGED <<exists, file, pos, read_visits, loaded, mainPc, result,
                   failed, cancel, interrupted, buf, startFile, flushed,
                   flushing, finalFlushes>>

----------------------------------------------------------------------------

Next ==
    \/ CtrlC
    \/ CtrlCError
    \/ Load
    \/ Open
    \/ SelectCancel
    \/ SelectTick
    \/ Accept
    \/ ShutdownLock
    \/ ShutdownSeek
    \/ ShutdownWrite
    \/ ShutdownFlush
    \/ ShutdownReturn
    \/ TickLock
    \/ TickSeek
    \/ TickWrite
    \/ TickFlush
    \/ TickEnd
    \/ Exit
    \/ \E c \in Conns, h \in Headers : Request(c, h)
    \/ \E c \in Conns : HandleLock(c)
    \/ \E c \in Conns : HandleIncrement(c)

Spec == Init /\ [][Next]_vars

\* the process started without a snapshot file or with an empty one
LiveInit == Init /\ file = <<>>

\* main is not suspended for ever at a step that can complete: the file
\* operations return, the body of a select! branch runs to its end and the
\* runtime ends the process when main has returned
MainProgress ==
    \/ Load
    \/ Open
    \/ ShutdownSeek
    \/ ShutdownWrite
    \/ ShutdownFlush
    \/ ShutdownReturn
    \/ TickSeek
    \/ TickWrite
    \/ TickFlush
    \/ TickEnd
    \/ Exit

\* a request task that holds the lock runs on to the end of its critical
\* section
TaskProgress == \E c \in Conns : HandleIncrement(c)

\* the scheduling of the runtime: select! polls its branches in a random
\* order, so a branch that is ready again and again is taken (line 149);
\* the Mutex hands the lock to its waiters in the order of their requests,
\* so main's lock() is served (lines 152 and 160)
FairSpec ==
    /\ LiveInit
    /\ [][Next]_vars
    /\ WF_vars(MainProgress)
    /\ WF_vars(TaskProgress)
    /\ SF_vars(SelectCancel)
    /\ SF_vars(ShutdownLock)
    /\ SF_vars(TickLock)

----------------------------------------------------------------------------
(* Definitions shared by the properties *)

Last(q) == q[Len(q)]

\* the counts returned so far to requests with referer k, in order
Returned(k) ==
    LET ok == SelectSeq(responses, LAMBDA r : r.status = 200 /\ r.referer = k)
    IN [i \in 1..Len(ok) |-> ok[i].count]

\* this step sends a response
Responds == Len(responses') = Len(responses) + 1

A == <<"a">>
AB == <<"a", SP, "b">>

----------------------------------------------------------------------------
(* C1: for a key that is absent from the table after startup, the values   *)
(* returned by the N increments made so far, by whatever interleaving of   *)
(* the request tasks, are exactly 1, 2, ..., N: none twice, none missing.  *)
C1_ReturnedValuesAreOneToN ==
    \A k \in Referers :
        k \notin DOMAIN loaded =>
            LET rs == Returned(k)
            IN /\ {rs[i] : i \in 1..Len(rs)} = 1..Len(rs)
               /\ \A i, j \in 1..Len(rs) : i # j => rs[i] # rs[j]

\* two tasks have incremented the same, initially absent key
C1_Witness ==
    /\ A \notin DOMAIN loaded
    /\ Len(Returned(A)) = 2
    /\ conn[1].pc = "idle"
    /\ conn[2].pc = "idle"

C3_NoRefererIs400 ==
    [][\A c \in Conns :
         Request(c, NoHeader) =>
            /\ responses' = Append(responses, BadRequest)
            /\ visits' = visits
            /\ conn' = conn]_vars

\* a request without referer was answered 400 and the next, valid request
\* for a key absent at startup got 1
C3_Witness ==
    /\ A \notin DOMAIN loaded
    /\ responses = <<BadRequest, Success(A, 1)>>

----------------------------------------------------------------------------
(* The snapshot a fresh process would load from the file *)
FreshLoad(f) == Decode(ReadVisits(TRUE, f))


\* the file with the lines "a 3" and "not a record"
ExampleFile ==
    <<"a", SP, "3", NL, "n", "o", "t", SP, "a", SP, "r", "e", "c", "o", "r", "d", NL>>

\* the file with the line "a 3 extra"
ExtraFile == <<"a", SP, "3", SP, "e", "x", "t", "r", "a", NL>>

(* C4: when a flush, periodic or at shutdown, has completed, the whole     *)
(* content of the snapshot file is the text that flush encoded from the    *)
(* table: no byte of an earlier, longer content remains after it.          *)
C4_FlushReplacesFile ==
    mainPc \in {"tk_end", "sd_end"} => file = buf

(* C5: decoding the encoding of the table gives back the table, for every  *)
(* table the program holds (counts are naturals, keys have no newline and  *)
(* may have spaces) and every order in which the entries are written.      *)
C5_RoundTrip ==
    \A order \in Orders(visits) :
        Decode(write_visits(visits, order)) = visits

(* C6: when the process that received the interrupt has completed its      *)
(* shutdown flush, a fresh process loading the snapshot file gets exactly  *)
(* the table the first process holds at shutdown.                          *)
C6_ShutdownThenLoad ==
    (mainPc = "sd_end" /\ interrupted) => FreshLoad(file) = visits

----------------------------------------------------------------------------
(* Lines as records, stated without Split *)

Spaces(l) == {p \in 1..Len(l) : l[p] = SP}

FirstSpace(l) == CHOOSE p \in Spaces(l) : \A q \in Spaces(l) : p <= q

\* the part of l before its first space
KeyOf(l) == SubSeq(l, 1, FirstSpace(l) - 1)

\* the whole of l after its first space
RestOf(l) == SubSeq(l, FirstSpace(l) + 1, Len(l))

\* the part of l between its first space and its second space or its end
SecondOf(l) ==
    IF Spaces(RestOf(l)) = {} THEN RestOf(l) ELSE KeyOf(RestOf(l))

\* the table that holds, for every key of an accepted line, the value of
\* the last accepted line with that key
TableOf(ls, Accepted(_), ValueOf(_)) ==
    LET hits(k) == {i \in 1..Len(ls) : Accepted(ls[i]) /\ KeyOf(ls[i]) = k}
        last(k) == CHOOSE i \in hits(k) : \A j \in hits(k) : j <= i
    IN [k \in {KeyOf(ls[i]) : i \in {j \in 1..Len(ls) : Accepted(ls[j])}} |->
            ValueOf(ls[last(k)])]

RestParses(l) == Spaces(l) # {} /\ ParseUsize(RestOf(l)).ok
RestValue(l) == ParseUsize(RestOf(l)).val

SecondParses(l) == Spaces(l) # {} /\ ParseUsize(SecondOf(l)).ok
SecondValue(l) == ParseUsize(SecondOf(l)).val

(* C7 as stated: loading splits each line on its first space into (key,    *)
(* rest) and inserts key -> value only if the whole of rest parses as a    *)
(* non-negative integer; any other line, "a 3 extra" included, is dropped. *)
C7_Original_WholeRestParses ==
    mainPc = "open" =>
        visits = TableOf(Lines(read_visits), RestParses, RestValue)

(* C7 amended: loading splits each line on every space and takes the first *)
(* two pieces (key, v); it inserts key -> value if and only if v parses as *)
(* a non-negative integer, whatever follows a second space; a line without *)
(* a space or with a non-numeric second piece is dropped.  So "a 3 extra"  *)
(* is loaded as a -> 3.                                                    *)
C7_SecondFieldParses ==
    mainPc = "open" =>
        /\ visits = TableOf(Lines(read_visits), SecondParses, SecondValue)
        /\ read_visits = ExtraFile => visits = (A :> 3)

\* the file "a 3 extra" has been loaded as a -> 3
C7_Witness ==
    /\ mainPc = "open"
    /\ read_visits = ExtraFile
    /\ A \in DOMAIN visits
    /\ visits[A] = 3

\* a line of one key without space, one space, one or more digits
WellFormed(l) ==
    /\ Cardinality(Spaces(l)) = 1
    /\ KeyOf(l) # <<>>
    /\ RestOf(l) # <<>>
    /\ \A i \in 1..Len(RestOf(l)) : IsDigit(RestOf(l)[i])

(* C8: loading never fails: main goes on to open the file with a table     *)
(* that is empty if the file is missing, unreadable or empty, and that     *)
(* holds the key of every well-formed line (with its count, if no later    *)
(* line has that key) whatever malformed lines stand before or after it;   *)
(* the lines "a 3" and "not a record" load as {a: 3}.                      *)
C8_LoadNeverFails ==
    mainPc = "open" =>
        /\ result = "none"
        /\ failed = "none"
        /\ (~exists \/ ~IsUtf8(file) \/ file = <<>>) => visits = EmptyTable
        /\ (exists /\ IsUtf8(file)) =>
              \A i \in 1..Len(Lines(file)) :
                  LET l == Lines(file)[i]
                  IN WellFormed(l) =>
                        /\ KeyOf(l) \in DOMAIN visits
                        /\ (\A j \in (i + 1)..Len(Lines(file)) :
                               LET m == Lines(file)[j]
                               IN Spaces(m) = {} \/ KeyOf(m) # KeyOf(l))
                           => visits[KeyOf(l)] = RestValue(l)
        /\ file = ExampleFile => visits = (A :> 3)

\* the lines "a 3" and "not a record" have been loaded as {a: 3}
C8_Witness ==
    /\ mainPc = "open"
    /\ exists
    /\ file = ExampleFile
    /\ visits = (A :> 3)

\* a well-formed line after a malformed one has been loaded
C8_WitnessAfterGarbage ==
    /\ mainPc = "open"
    /\ file = <<"z", "z", NL, "a", SP, "5", NL>>
    /\ visits = (A :> 5)

TickSteps == {"tk_seek", "tk_write", "tk_flush"}
ShutdownSteps == {"sd_seek", "sd_write", "sd_flush"}

(* C9: when an I/O operation of a periodic flush has failed, the process   *)
(* keeps running: main does not return and goes on with its loop.          *)
C9_TickFailureContinues ==
    failed \in TickSteps => (result = "none" /\ mainPc \notin {"returned", "exited"})

(* C10: when an I/O operation of the shutdown flush has failed, main       *)
(* returns an error: the process never ends, and never has ended, with     *)
(* success status after it.                                                *)
C10_ShutdownFailureIsError ==
    failed \in ShutdownSteps =>
        (result = "err" /\ mainPc \in {"returned", "exited"})

\* the write of the shutdown flush failed and the process has ended
C10_Witness ==
    /\ failed = "sd_write"
    /\ mainPc = "exited"
    /\ result = "err"

----------------------------------------------------------------------------
(* Shutdown *)

\* the connections accepted so far
Accepted == {c \in Conns : conn[c].pc # "none"}

\* main has taken the shutdown branch, or has returned
StoppedAccepting == "shutdown" \in flushing \/ mainPc \in {"returned", "exited"}

(* C11: once the main loop has observed the interrupt it accepts no        *)
(* connection any more; the flush of the shutdown is performed after that, *)
(* at most once and of the table as it then is; and main returns success   *)
(* only after exactly one such flush, which it does whenever no I/O        *)
(* operation has failed.                                                   *)
C11_ShutdownOrder ==
    /\ [][StoppedAccepting => Accepted' = Accepted]_vars
    /\ [][finalFlushes' # finalFlushes =>
            (finalFlushes' = 1 /\ "shutdown" \in flushing /\ flushed = visits)]_vars
    /\ [](result = "ok" => finalFlushes = 1)
    /\ []((mainPc \in {"returned", "exited"} /\ failed = "none") =>
            result = "ok")

\* after the interrupt, with a connection accepted and a request served
\* before it, the process has flushed once and ended with success
C11_Witness ==
    /\ interrupted
    /\ mainPc = "exited"
    /\ result = "ok"
    /\ finalFlushes = 1
    /\ Accepted # {}
    /\ responses # <<>>
    /\ flushed = visits

(* C12: the flush of the shutdown is completed at most once, only after    *)
(* the main loop has received from the cancel channel, and exactly once    *)
(* when main has returned without a failed I/O operation; a periodic flush *)
(* and the shutdown flush are never both in progress, and a flush that has *)
(* passed its lock() holds the lock.                                       *)
C12_OneFinalFlushNoOverlap ==
    /\ Cardinality(flushing) <= 1
    /\ finalFlushes <= 1
    /\ finalFlushes = 1 => cancel = "closed"
    /\ (mainPc \in {"returned", "exited"} /\ failed = "none") => finalFlushes = 1
    /\ (flushing # {} /\ mainPc \notin {"tk_lock", "sd_lock"}) => lock = Main

\* the interrupt has arrived while a periodic flush is writing: the
\* shutdown flush has not begun
C12_Witness ==
    /\ interrupted
    /\ cancel = "msg"
    /\ mainPc = "tk_flush"
    /\ flushing = {"tick"}
    /\ responses # <<>>

----------------------------------------------------------------------------
(* The table *)

(* C13: in every step of the process every key of the table stays in the   *)
(* table and its count does not become smaller.                            *)
C13_CountsNeverDecrease ==
    [][\A k \in DOMAIN visits :
          k \in DOMAIN visits' /\ visits'[k] >= visits[k]]_vars

\* a loaded key has been counted up and a new key has been added
C13_Witness ==
    /\ A \in DOMAIN loaded
    /\ visits[A] = loaded[A] + 1
    /\ AB \in DOMAIN visits \ DOMAIN loaded
    /\ Len(responses) = 2

(* C14: when the process has exited after a successful shutdown, the table *)
(* that the final flush encoded is the table at exit: no request task has  *)
(* incremented it after the final flush read it.                           *)
C14_FinalFlushHasEveryIncrement ==
    (mainPc = "exited" /\ result = "ok") => flushed = visits

----------------------------------------------------------------------------
(* Flushes and the lock *)

\* main is between the lock() of a flush and the end of its branch
Holding == {"sd_seek", "sd_write", "sd_flush", "sd_end",
            "tk_seek", "tk_write", "tk_flush", "tk_end"}

\* write_all of the flush has been called
Written == {"sd_flush", "sd_end", "tk_flush", "tk_end"}

(* C15: from the lock() of a flush to the end of its branch main holds the *)
(* lock and no request task is in its critical section, no step changes    *)
(* the table, a request task that wants the lock cannot take it, and the   *)
(* table that was encoded is still the table when the write has been done. *)
C15_FlushIsSnapshot ==
    /\ [](mainPc \in Holding =>
            /\ lock = Main
            /\ \A c \in Conns : conn[c].pc # "locked"
            /\ \A c \in Conns : ~ENABLED HandleLock(c))
    /\ [][(mainPc \in Holding) => (visits' = visits)]_vars
    /\ [](mainPc \in Written => flushed = visits)

\* a request task waits for the lock while a periodic flush that has
\* encoded a non-empty table is about to finish
C15_Witness ==
    /\ mainPc = "tk_flush"
    /\ \E c \in Conns : conn[c].pc = "lock"
    /\ responses # <<>>
    /\ visits # EmptyTable
    /\ flushed = visits

----------------------------------------------------------------------------
(* Termination *)

(* C16: under the fair scheduling of the runtime, once the interrupt has   *)
(* been delivered the process eventually ends, and when no file operation  *)
(* failed it ends with success after the one final flush: neither timer    *)
(* ticks nor connections nor request tasks holding the lock postpone the   *)
(* shutdown branch for ever.                                               *)
C16_InterruptLeadsToExit ==
    interrupted ~>
        (/\ mainPc = "exited"
         /\ failed = "none" => (result = "ok" /\ finalFlushes = 1))

\* the interrupt came while a request task held the lock and a periodic
\* flush was waiting for it; the process has ended with the final flush done
C16_Witness ==
    /\ interrupted
    /\ mainPc = "exited"
    /\ failed = "none"
    /\ finalFlushes = 1
    /\ Len(responses) = MaxReqs
    /\ \A c \in Conns : conn[c].pc = "idle"

----------------------------------------------------------------------------
(* Frame of the table *)

\* the count of k, 0 for a key that is absent
CountOf(t, k) == IF k \in DOMAIN t THEN t[k] ELSE 0

(* C17: the key of a request is the value of its Referer header, every     *)
(* character of it; the increment of key k adds one to k, adds no other    *)
(* key and changes no other count; so the count of each referer is its     *)
(* loaded count plus the number of requests answered for that very string. *)
C17_KeyIsRefererVerbatim ==
    /\ [][\A c \in Conns, h \in Headers :
            (Request(c, h) /\ h.present /\ IsVisibleAscii(h.value)) =>
                conn'[c] = [pc |-> "lock", referer |-> h.value]]_vars
    /\ [][\A c \in Conns :
            (conn[c].pc = "locked" /\ conn'[c].pc = "idle") =>
                LET k == conn[c].referer
                IN /\ DOMAIN visits' = DOMAIN visits \cup {k}
                   /\ visits'[k] = CountOf(visits, k) + 1
                   /\ \A x \in DOMAIN visits \ {k} : visits'[x] = visits[x]
                   /\ Last(responses') = Success(k, visits'[k])]_vars
    /\ [](\A k \in Referers :
            CountOf(visits, k) = CountOf(loaded, k) + Len(Returned(k)))

\* "a" and "a b" have been counted once each, as two entries, beside the
\* count of "a" that was loaded
C17_Witness ==
    /\ A \in DOMAIN loaded
    /\ Returned(A) = <<loaded[A] + 1>>
    /\ Returned(AB) = <<1>>
    /\ visits[AB] = 1
    /\ visits[A] = loaded[A] + 1

\* this step is the increment made by the request task of a connection
Increments == \E c \in Conns : conn[c].pc = "locked" /\ conn'[c].pc = "idle"

(* C18: once the table has been loaded, only the increment of a request    *)
(* task changes it; every step of main after the load, the steps of a      *)
(* flush that succeeds or fails among them, leaves it as it is; and the    *)
(* snapshot file is read by the load alone, whatever is written to it      *)
(* later.                                                                  *)
C18_OnlyIncrementChangesTable ==
    /\ [][(mainPc # "load" /\ visits' # visits) => Increments]_vars
    /\ [][(mainPc # "load" /\ (mainPc' # mainPc \/ file' # file)) =>
             visits' = visits]_vars
    /\ [][(mainPc # "load") =>
             (read_visits' = read_visits /\ loaded' = loaded)]_vars
    /\ [](mainPc # "load" => read_visits = ReadVisits(exists, startFile))

\* a write of a flush has failed after it changed the file, and the table
\* still holds the increment made before it
C18_Witness ==
    /\ failed \in {"tk_write", "sd_write"}
    /\ file # startFile
    /\ A \in DOMAIN visits
    /\ visits[A] = CountOf(loaded, A) + 1
    /\ Len(responses) = 1

----------------------------------------------------------------------------
(* Length of the snapshot *)

\* the bytes of f after its first n
Beyond(f, n) == SubSeq(f, n + 1, Len(f))

(* C19: the text encoded by a flush is never shorter than the text encoded *)
(* by the flush before it in the same run, and when the write of a flush   *)
(* has succeeded the file is that text followed by what the file held at   *)
(* startup beyond its length: no byte of an earlier flush of the run       *)
(* remains.                                                                *)
C19_SnapshotNeverShrinks ==
    /\ [][Len(buf') >= Len(buf)]_vars
    /\ [](mainPc \in Written => file = buf \o Beyond(startFile, Len(buf)))

\* a flush has written a text shorter than the startup content, the table
\* has grown since, and the next flush has sought the start of the file
C19_Witness ==
    /\ mainPc \in {"tk_write", "sd_write"}
    /\ pos = 0
    /\ buf # <<>>
    /\ file = buf \o Beyond(startFile, Len(buf))
    /\ Beyond(startFile, Len(buf)) # <<>>
    /\ \A order \in Orders(visits) :
          Len(write_visits(visits, order)) > Len(buf)

----------------------------------------------------------------------------
(* Shutdown without an interrupt *)

\* the signal task has ended without sending: the channel is closed and no
\* interrupt was received
ClosedWithoutInterrupt == cancel = "closed" /\ ~interrupted

(* C20: the shutdown branch can be taken on a closed cancel channel as on  *)
(* a notification: when the signal task has ended without sending, main,   *)
(* under the fair scheduling of the runtime, makes the final flush and the *)
(* process ends with success (with an error if a file operation failed),   *)
(* though no interrupt was received.                                       *)
C20_ClosedChannelShutsDown ==
    /\ []((mainPc = "select" /\ ClosedWithoutInterrupt) => ENABLED SelectCancel)
    /\ ClosedWithoutInterrupt ~>
          (/\ mainPc = "exited"
           /\ ~interrupted
           /\ failed = "none" => (result = "ok" /\ finalFlushes = 1))

\* the process has ended with success after the final flush of a table
\* with counted requests, and no interrupt was received
C20_Witness ==
    /\ ~interrupted
    /\ cancel = "closed"
    /\ mainPc = "exited"
    /\ result = "ok"
    /\ finalFlushes = 1
    /\ responses # <<>>
    /\ flushed # EmptyTable

====
